---- MODULE Spec2Model ----
(***************************************************************************)
(* The ETL handler of src/lambda/lambda_function_local.py as a state       *)
(* machine: one run of lambda_handler (configuration, the source loop,     *)
(* the summary, the response), and extract_data_safe as an operator over   *)
(* the source name, the source config, the client that is importable and   *)
(* the HTTP outcome.                                                       *)
(***************************************************************************)
EXTENDS Integers, Sequences, FiniteSets, TLC

(***************************************************************************)
(* Bounds of the model.                                                    *)
(***************************************************************************)
\* longest data_sources mapping a stored secret holds
MaxSources == 2
\* longest record list an API response holds
MaxLen == 2
\* clock ticks in a second, seconds in a day
TicksPerSecond == 2
SecondsPerDay == 2
\* calls of load_to_s3 in a sequence of loads
MaxCalls == 2
\* runs of the provisioning scripts against one account
MaxRuns == 3

(***************************************************************************)
(* Program constants.                                                      *)
(***************************************************************************)
\* config.get('default_limit', 10)
DefaultLimit == 10
\* the only status the extractor accepts
HTTP_OK == 200
\* statusCode of a failed run
HTTP_FAILED == 500

(***************************************************************************)
(* JSON values (what json.loads / response.json() produce).  Python's None *)
(* is JNull.  A value is a pair of its type and its content: a string is a *)
(* sequence of characters, an object a function from its keys to its       *)
(* values.                                                                 *)
(***************************************************************************)
JNull == <<"null", 0>>
JNum(n) == <<"num", n>>
JStr(s) == <<"str", s>>
JList(items) == <<"list", items>>
JObj(f) == <<"obj", f>>
\* a response body that is not JSON
Invalid == <<"invalid", 0>>

EmptyMap == [k \in {} |-> JNull]

\* Python truthiness of a JSON value: `if raw_data:`, `if not config:`
Truthy(j) ==
    CASE j[1] = "null" -> FALSE
      [] j[1] = "num" -> j[2] # 0
      [] j[1] = "str" -> Len(j[2]) > 0
      [] j[1] = "list" -> Len(j[2]) > 0
      [] j[1] = "obj" -> DOMAIN j[2] # {}
      [] j[1] = "dict" -> Len(j[2]) > 0
      [] OTHER -> FALSE

(***************************************************************************)
(* The result of running a block of Python: it returns a value or raises.  *)
(***************************************************************************)
Ret(x) == [exc |-> "none", val |-> x]
Raise(e) == [exc |-> e, val |-> JNull]
Raised(o) == o.exc # "none"

Min(a, b) == IF a < b THEN a ELSE b
Max(a, b) == IF a > b THEN a ELSE b

\* data[:n] on a list
SliceTo(items, n) ==
    IF n >= 0 THEN SubSeq(items, 1, Min(n, Len(items)))
    ELSE SubSeq(items, 1, Max(0, Len(items) + n))

(***************************************************************************)
(* extract_data_safe                                                       *)
(***************************************************************************)
KnownSources == {"marketing", "sales", "crm"}

\* config.get('default_limit', 10): raises when config is no mapping
GetDefaultLimit(config) ==
    IF config[1] # "obj" THEN Raise("AttributeError")
    ELSE IF "default_limit" \in DOMAIN config[2] THEN Ret(config[2]["default_limit"])
    ELSE Ret(JNum(DefaultLimit))

\* data[:config.get('default_limit', 10)]
SliceByLimit(data, config) ==
    LET lim == GetDefaultLimit(config) IN
    IF Raised(lim) THEN lim
    ELSE IF lim.val[1] = "null" THEN Ret(data)
    ELSE IF lim.val[1] = "num" THEN Ret(JList(SliceTo(data[2], lim.val[2])))
    ELSE Raise("TypeError")

\* the URL (and parameters) of the request: known sources read default_limit,
\* any other source reads config['url']
BuildUrl(source_name, config) ==
    IF source_name \in KnownSources
    THEN LET lim == GetDefaultLimit(config) IN
         IF Raised(lim) THEN lim ELSE Ret(JStr(<<source_name>>))
    ELSE IF config[1] = "obj"
         THEN IF "url" \in DOMAIN config[2] THEN Ret(config[2]["url"])
              ELSE Raise("KeyError")
         ELSE Raise("TypeError")

\* a slip that turns away server errors only
StatusOkBelow500(resp) == resp.status < HTTP_FAILED

\* lines 228 and 298: only status 200 is read
StatusOk(resp) == resp.status = HTTP_OK

\* the try/except of lines 234-239 and 303-308: a body that is not JSON
\* makes the parse raise JSONDecodeError, which is answered with None
ParseJson(body) ==
    IF body = Invalid THEN Raise("JSONDecodeError") ELSE Ret(body)

\* lines 242-255: the response formats of the primary client
NormalizePrimary(data, config) ==
    IF data[1] = "obj"
    THEN IF "results" \in DOMAIN data[2] THEN Ret(data[2]["results"])
         ELSE IF "data" \in DOMAIN data[2] THEN Ret(data[2]["data"])
         ELSE IF "products" \in DOMAIN data[2] THEN Ret(data[2]["products"])
         ELSE Ret(JList(<<data>>))
    ELSE IF data[1] = "list" THEN SliceByLimit(data, config)
    ELSE Ret(JList(<<data>>))

\* lines 310-320: the response formats of the urllib3 fallback
NormalizeFallback(data, config) ==
    IF data[1] = "obj"
    THEN IF "results" \in DOMAIN data[2] THEN Ret(data[2]["results"])
         ELSE IF "data" \in DOMAIN data[2] THEN Ret(data[2]["data"])
         ELSE Ret(JList(<<data>>))
    ELSE IF data[1] = "list" THEN SliceByLimit(data, config)
    ELSE Ret(JList(<<data>>))

\* lines 188-255: the body of the outer try, with the requests client
PrimaryBody(source_name, config, have_requests, resp) ==
    IF ~have_requests THEN Raise("ImportError")
    ELSE LET url == BuildUrl(source_name, config) IN
         IF Raised(url) THEN url
         ELSE IF url.val[1] # "str" THEN Raise("MissingSchema")
         ELSE IF resp.net # "ok" THEN Raise("ConnectionError")
         ELSE IF ~StatusOk(resp) THEN Ret(JNull)
         ELSE LET data == ParseJson(resp.body) IN
              IF Raised(data) THEN Ret(JNull)
              ELSE NormalizePrimary(data.val, config)

\* lines 262-320: the body of the inner try, with the urllib3 client
FallbackBody(source_name, config, resp) ==
    LET url == BuildUrl(source_name, config) IN
    IF Raised(url) THEN url
    ELSE IF url.val[1] # "str" THEN Raise("LocationValueError")
    ELSE IF resp.net # "ok" THEN Raise("MaxRetryError")
    ELSE IF ~StatusOk(resp) THEN Ret(JNull)
    ELSE LET data == ParseJson(resp.body) IN
         IF Raised(data) THEN Ret(JNull)
         ELSE NormalizeFallback(data.val, config)

\* an extractor that lets what the try blocks raise reach its caller
CatchExceptionNever(o) == o

\* `except Exception as e: ... return None` (lines 322-324, 326-330)
CatchException(o) == IF Raised(o) THEN Ret(JNull) ELSE o

\* a fallback taken on whatever the primary attempt raises
UsesFallbackOnAnyError(p) == Raised(p)

\* line 257: `except ImportError` is the only way into the urllib3 block
UsesFallback(p) == p.exc = "ImportError"

extract_data_safe(source_name, config, have_requests, resp) ==
    LET p == PrimaryBody(source_name, config, have_requests, resp) IN
    IF UsesFallback(p)
    THEN CatchException(FallbackBody(source_name, config, resp))
    ELSE CatchException(p)

\* the GET calls of one extract_data_safe, by client: requests.get (line
\* 215) is reached when requests is imported and the URL is built,
\* http_local.request (line 286) when the urllib3 block is entered and the
\* URL is built
UrlBuilt(source_name, config) ==
    LET url == BuildUrl(source_name, config) IN ~Raised(url) /\ url.val[1] = "str"

RequestsOf(source_name, config, have_requests, resp) ==
    LET p == PrimaryBody(source_name, config, have_requests, resp)
        built == UrlBuilt(source_name, config)
    IN (IF have_requests /\ built
        THEN <<[source |-> source_name, client |-> "requests"]>> ELSE <<>>)
       \o (IF UsesFallback(p) /\ built
           THEN <<[source |-> source_name, client |-> "urllib3"]>> ELSE <<>>)

(***************************************************************************)
(* Inputs: raw records, source configs, HTTP outcomes.                     *)
(***************************************************************************)
SeqsUpTo(S, n) == UNION {[1..k -> S] : k \in 0..n}

\* a raw record every projection accepts
RecGood ==
    JObj("id" :> JNum(1) @@ "title" :> JStr(<<"T">>) @@ "price" :> JNum(9)
         @@ "body" :> JStr(<<"b">>)
         @@ "name" :> JObj("first" :> JStr(<<"F">>) @@ "last" :> JStr(<<"L">>)))
\* a raw record whose price, body and name have types no projection accepts
RecBad ==
    JObj("id" :> JNum(2) @@ "price" :> JStr(<<"x">>) @@ "body" :> JNum(3)
         @@ "name" :> JStr(<<"n">>))
RawRecords == {RecGood, RecBad}

\* the values an object response holds under 'results', 'data', 'products'
KeyValues == {JList(<<>>), JList(<<RecGood>>), JList(<<RecBad>>), JNum(7)}
ShapeKeys == {"results", "data", "products"}
ObjectBodies == {JObj(f) : f \in UNION {[K -> KeyValues] : K \in SUBSET ShapeKeys}}
ListBodies == {JList(s) : s \in SeqsUpTo(RawRecords, MaxLen)}
Bodies == ObjectBodies \cup ListBodies \cup {JNum(7), JNull, Invalid}

Responses ==
    {[net |-> "ok", status |-> HTTP_OK, body |-> b] : b \in Bodies}
    \cup {[net |-> "ok", status |-> st, body |-> b] :
            st \in {404, HTTP_FAILED}, b \in {Invalid, JList(<<RecGood>>)}}
    \cup {[net |-> "error", status |-> 0, body |-> Invalid]}

\* the responses a run is given: as above, with at most one of the shape keys
\* in an object (the first key present decides what the extractor returns)
RunResponses ==
    {r \in Responses : r.body[1] = "obj" => Cardinality(DOMAIN r.body[2]) <= 1}

Url == JStr(<<"h">>)
\* the config of one source: with or without 'url', with or without
\* 'default_limit'
SourceConfigs(name) ==
    IF name \in KnownSources
    THEN {JObj("url" :> Url), JObj("url" :> Url @@ "default_limit" :> JNum(1))}
    ELSE {JObj("url" :> Url), JObj("default_limit" :> JNum(1))}

(***************************************************************************)
(* Time.  datetime.now() reads the clock, which counts ticks; isoformat()  *)
(* shows the tick, '%Y%m%d_%H%M%S' stops at the second, '%Y-%m-%d' at the  *)
(* day.                                                                    *)
(***************************************************************************)
DayOf(t) == t \div (TicksPerSecond * SecondsPerDay)
SecondOf(t) == (t \div TicksPerSecond) % SecondsPerDay
TickOf(t) == t % TicksPerSecond

\* strftime('%Y-%m-%d')
StrfDate(t) == <<DayOf(t)>>
\* strftime('%Y%m%d_%H%M%S')
StrfTimestamp(t) == <<DayOf(t), SecondOf(t)>>
\* isoformat()
IsoFormat(t) == <<DayOf(t), SecondOf(t), TickOf(t)>>

(***************************************************************************)
(* transform_data                                                          *)
(***************************************************************************)
\* the field limit of description and body
FieldLimit == 200
\* hexdigest() of an md5, and the part of it that is the record_id
DigestLength == 32
IdLength == 12

Digits == {"0", "1", "2", "3", "4", "5", "6", "7", "8", "9"}
DigitValue(c) == CHOOSE n \in 0..9 : ToString(n) = c
RECURSIVE Decimal(_)
Decimal(s) ==
    IF s = <<>> THEN 0
    ELSE 10 * Decimal(SubSeq(s, 1, Len(s) - 1)) + DigitValue(s[Len(s)])

\* float(x): a number, or a string that reads as one
PyFloat(j) ==
    CASE j[1] = "num" -> Ret(j)
      [] j[1] = "str" ->
            IF j[2] # <<>> /\ \A i \in 1..Len(j[2]) : j[2][i] \in Digits
            THEN Ret(JNum(Decimal(j[2]))) ELSE Raise("ValueError")
      [] OTHER -> Raise("TypeError")

\* x[:200]: strings and lists can be sliced
Slice200(j) ==
    IF j[1] \in {"str", "list"} THEN Ret(<<j[1], SliceTo(j[2], FieldLimit)>>)
    ELSE Raise("TypeError")

\* a lookup that forgets its default
GetNone(record, key, default) ==
    IF key \in DOMAIN record[2] THEN record[2][key] ELSE JNull

\* record.get(key, default) on a mapping
Get(record, key, default) ==
    IF key \in DOMAIN record[2] THEN record[2][key] ELSE default

\* str(x) inside an f-string
PyStr(j) == IF j[1] = "str" THEN j[2] ELSE <<j[1]>>

NameKey == <<"n", "a", "m", "e">>

\* `'name' in record`: a key of a mapping, an element of a list, a substring
\* of a string; a number or None is not iterable
NameIn(record) ==
    CASE record[1] = "obj" -> Ret("name" \in DOMAIN record[2])
      [] record[1] = "list" ->
            Ret(\E i \in 1..Len(record[2]) : record[2][i] = JStr(NameKey))
      [] record[1] = "str" ->
            Ret(\E i \in 1..Len(record[2]) :
                    i + 3 <= Len(record[2]) /\ SubSeq(record[2], i, i + 3) = NameKey)
      [] OTHER -> Raise("TypeError")

HexDigits == <<"0", "1", "2", "3", "4", "5", "6", "7", "8", "9",
               "a", "b", "c", "d", "e", "f">>

\* json.dumps(record) and the f-string of line 338, by the number the digest
\* is computed from: every part of the string enters it
JsonCode(j) ==
    CASE j[1] = "obj" -> 5 + Cardinality(DOMAIN j[2])
      [] j[1] \in {"list", "str"} -> 3 + Len(j[2])
      [] j[1] = "num" -> 2 + j[2]
      [] OTHER -> 1

NameCode(source_name) ==
    CASE source_name = "marketing" -> 1
      [] source_name = "sales" -> 2
      [] source_name = "crm" -> 3
      [] OTHER -> 4

UniqueString(source_name, idx, now, record) ==
    <<NameCode(source_name), idx, IsoFormat(now), JsonCode(record)>>

\* hashlib.md5(...).hexdigest(): DigestLength hexadecimal characters that
\* depend on every part of the input
Md5HexDigest(u) ==
    LET seed == 7 * u[1] + 5 * u[2] + 3 * (u[3][1] + u[3][2] + u[3][3]) + u[4]
    IN [i \in 1..DigestLength |-> HexDigits[((seed + i * i) % 16) + 1]]

\* an id that keeps the whole digest
RecordIdWholeDigest(source_name, idx, now, record) ==
    JStr(Md5HexDigest(UniqueString(source_name, idx, now, record)))

\* lines 338-339
RecordId(source_name, idx, now, record) ==
    JStr(SliceTo(Md5HexDigest(UniqueString(source_name, idx, now, record)), IdLength))

\* lines 341-347: the envelope of every transformed record; idx counts from 0
Envelope(source_name, idx, record, now) ==
    "record_id" :> RecordId(source_name, idx, now, record)
    @@ "source" :> JStr(<<source_name>>)
    @@ "extracted_at" :> JStr(IsoFormat(now))
    @@ "extracted_date" :> JStr(StrfDate(now))
    @@ "raw_data" :> record

\* lines 350-358
ProductOf(record) ==
    IF record[1] # "obj" THEN Raise("AttributeError")
    ELSE LET price == PyFloat(Get(record, "price", JNum(0)))
             description == Slice200(Get(record, "description", JStr(<<>>)))
         IN IF Raised(price) THEN price
            ELSE IF Raised(description) THEN description
            ELSE Ret(JObj("id" :> Get(record, "id", JNull)
                          @@ "title" :> Get(record, "title", JStr(<<>>))
                          @@ "price" :> price.val
                          @@ "category" :> Get(record, "category", JStr(<<>>))
                          @@ "description" :> description.val
                          @@ "image" :> Get(record, "image", JStr(<<>>))
                          @@ "rating" :> Get(record, "rating", JObj(EmptyMap))))

\* lines 361-366
SaleOf(record) ==
    IF record[1] # "obj" THEN Raise("AttributeError")
    ELSE LET body == Slice200(Get(record, "body", JStr(<<>>)))
         IN IF Raised(body) THEN body
            ELSE Ret(JObj("id" :> Get(record, "id", JNull)
                          @@ "user_id" :> Get(record, "userId", JNull)
                          @@ "title" :> Get(record, "title", JStr(<<>>))
                          @@ "body" :> body.val))

\* lines 370-380, for a record that is a mapping with a 'name'
CustomerOf(record) ==
    LET name == record[2]["name"]
        location == Get(record, "location", JObj(EmptyMap))
        registered == Get(record, "registered", JObj(EmptyMap))
    IN IF name[1] # "obj" \/ location[1] # "obj" \/ registered[1] # "obj"
       THEN Raise("AttributeError")
       ELSE Ret(JObj("first_name" :> Get(name, "first", JStr(<<>>))
                     @@ "last_name" :> Get(name, "last", JStr(<<>>))
                     @@ "full_name" :> JStr(PyStr(Get(name, "first", JStr(<<>>)))
                                            \o <<" ">>
                                            \o PyStr(Get(name, "last", JStr(<<>>))))
                     @@ "email" :> Get(record, "email", JStr(<<>>))
                     @@ "phone" :> Get(record, "phone", JStr(<<>>))
                     @@ "country" :> Get(location, "country", JStr(<<>>))
                     @@ "city" :> Get(location, "city", JStr(<<>>))
                     @@ "registered_date" :> Get(registered, "date", JStr(<<>>))))

\* a projection that takes every record for a product
TransformRecordAsProduct(source_name, idx, record, now) ==
    LET p == ProductOf(record) IN
    IF Raised(p) THEN p
    ELSE Ret(JObj(Envelope(source_name, idx, record, now) @@ "product" :> p.val))

\* lines 341-382: one record
TransformRecord(source_name, idx, record, now) ==
    LET env == Envelope(source_name, idx, record, now) IN
    CASE source_name = "marketing" ->
            LET p == ProductOf(record) IN
            IF Raised(p) THEN p ELSE Ret(JObj(env @@ "product" :> p.val))
      [] source_name = "sales" ->
            LET p == SaleOf(record) IN
            IF Raised(p) THEN p ELSE Ret(JObj(env @@ "sale" :> p.val))
      [] source_name = "crm" ->
            LET has == NameIn(record) IN
            IF Raised(has) THEN has
            ELSE IF ~has.val THEN Ret(JObj(env))
            ELSE IF record[1] # "obj" THEN Raise("TypeError")
            ELSE LET p == CustomerOf(record) IN
                 IF Raised(p) THEN p ELSE Ret(JObj(env @@ "customer" :> p.val))
      [] OTHER -> Ret(JObj(env))

RECURSIVE SetToSeq(_)
SetToSeq(S) ==
    IF S = {} THEN <<>>
    ELSE LET x == CHOOSE y \in S : TRUE IN <<x>> \o SetToSeq(S \ {x})

\* `for idx, record in enumerate(raw_data)`: the elements of a list, the keys
\* of a mapping, the characters of a string
Iterate(raw_data) ==
    CASE raw_data[1] = "list" -> Ret(raw_data[2])
      [] raw_data[1] = "obj" ->
            Ret([i \in 1..Cardinality(DOMAIN raw_data[2]) |->
                    JStr(<<SetToSeq(DOMAIN raw_data[2])[i]>>)])
      [] raw_data[1] = "str" ->
            Ret([i \in 1..Len(raw_data[2]) |-> JStr(<<raw_data[2][i]>>)])
      [] OTHER -> Raise("TypeError")

\* lines 337-382: the loop over the records from position i on; the first
\* record that raises ends it
RECURSIVE TransformFrom(_, _, _, _)
TransformFrom(source_name, items, i, now) ==
    IF i > Len(items) THEN Ret(<<>>)
    ELSE LET r == TransformRecord(source_name, i - 1, items[i], now) IN
         IF Raised(r) THEN r
         ELSE LET rest == TransformFrom(source_name, items, i + 1, now) IN
              IF Raised(rest) THEN rest ELSE Ret(<<r.val>> \o rest.val)

\* lines 333-384; now is what datetime.now() reads while the call runs
transform_data(source_name, raw_data, now) ==
    LET items == Iterate(raw_data) IN
    IF Raised(items) THEN items ELSE TransformFrom(source_name, items.val, 1, now)

(***************************************************************************)
(* Configuration                                                           *)
(***************************************************************************)
\* a dict in iteration order: a sequence of [name, config] with distinct names
JDict(entries) == <<"dict", entries>>

SourceNames == KnownSources \cup {"other"}

\* lines 162-180: the built-in configuration
DefaultConfig ==
    JObj("data_sources" :> JDict(<<
        [name |-> "marketing",
         config |-> JObj("name" :> JStr(<<"FakeStore API">>) @@ "url" :> Url
                         @@ "default_limit" :> JNum(DefaultLimit))],
        [name |-> "sales",
         config |-> JObj("name" :> JStr(<<"JSONPlaceholder">>) @@ "url" :> Url
                         @@ "default_limit" :> JNum(DefaultLimit))],
        [name |-> "crm",
         config |-> JObj("name" :> JStr(<<"RandomUser API">>) @@ "url" :> Url
                         @@ "default_limit" :> JNum(DefaultLimit))]>>))

\* the data_sources mappings a stored secret can hold
SourceLists ==
    {s \in SeqsUpTo([name : SourceNames,
                     config : UNION {SourceConfigs(n) : n \in SourceNames}],
                    MaxSources) :
        /\ \A i, j \in 1..Len(s) : i # j => s[i].name # s[j].name
        /\ \A i \in 1..Len(s) : s[i].config \in SourceConfigs(s[i].name)}

\* the documents a stored secret can hold: an empty document, a document
\* without 'data_sources', a 'data_sources' that is a number or a list, and
\* the well-formed ones
SecretDocuments ==
    {JObj(EmptyMap), JNull,
     JObj("retry_config" :> JNum(3)),
     JObj("data_sources" :> JNum(3)),
     JObj("data_sources" :> JList(<<JStr(<<"marketing">>)>>))}
    \cup {JObj("data_sources" :> JDict(s)) : s \in SourceLists}

\* the secret store: the read fails (network, permission, missing secret), or
\* gives a text that is no JSON, or gives a document
Secrets ==
    {[ok |-> FALSE, doc |-> Invalid]}
    \cup {[ok |-> TRUE, doc |-> d] : d \in SecretDocuments \cup {Invalid}}

\* lines 154-156: the body of the try
ReadSecret(sec) == IF sec.ok THEN ParseJson(sec.doc) ELSE Raise("ClientError")

\* a loader without the fallback: the exception of the read reaches the caller
get_configurationNoFallback(sec) == ReadSecret(sec)

\* lines 151-180: any exception of the read gives the built-in configuration
get_configuration(sec) ==
    LET r == ReadSecret(sec) IN IF Raised(r) THEN Ret(DefaultConfig) ELSE r

\* x[key]
Index(x, key) ==
    CASE x[1] = "obj" -> IF key \in DOMAIN x[2] THEN Ret(x[2][key]) ELSE Raise("KeyError")
      [] OTHER -> Raise("TypeError")

\* len(x)
PyLen(x) ==
    IF x[1] \in {"str", "list", "dict"} THEN Ret(Len(x[2]))
    ELSE IF x[1] = "obj" THEN Ret(Cardinality(DOMAIN x[2]))
    ELSE Raise("TypeError")

\* x.items()
Items(x) == IF x[1] = "dict" THEN Ret(x[2]) ELSE Raise("AttributeError")

\* lines 75-84: what the handler does with the loaded configuration before
\* the loop: the sources to iterate, or the exception raised
SourcesOf(cfg) ==
    IF ~Truthy(cfg) THEN Raise("Failed to load configuration")
    ELSE LET ds == Index(cfg, "data_sources") IN
         IF Raised(ds) THEN ds
         ELSE IF Raised(PyLen(ds.val)) THEN PyLen(ds.val)
         ELSE Items(ds.val)

\* line 135: len(config['data_sources'] if config else {}) in the final log
\* lines, outside every try
FinalLogRaises(cfg) ==
    /\ Truthy(cfg)
    /\ LET ds == Index(cfg, "data_sources") IN
       Raised(ds) \/ Raised(PyLen(ds.val))

(***************************************************************************)
(* lambda_handler: one run                                                 *)
(***************************************************************************)
VARIABLES
    pc,               \* where the run is
    secret,           \* what reading the secret gives
    have_requests,    \* whether `import requests` succeeds
    config,           \* the loaded configuration
    idx,              \* position of the loop in data_sources
    results,          \* the ExecutionResult
    raw_data,         \* what extract_data_safe returned for the current source
    transformed_data, \* what transform_data returned for the current source
    s3,               \* the put_object calls that succeeded, in order
    response,         \* the returned envelope
    log,              \* per source reached: what happened to it
    fatal_at,         \* the step whose exception reached the outer except
    call,             \* one call of a function on its own: its arguments
    returned,         \* ... and its outcome
    requests_made,    \* the HTTP GETs issued, in order: source and client
    clock,            \* what datetime.now() reads, in ticks
    cloud             \* the control plane the provisioning scripts talk to

vars == <<pc, secret, have_requests, config, idx, results, raw_data,
          transformed_data, s3, response, log, fatal_at, call, returned,
          requests_made, clock, cloud>>

\* a resource that does not exist
Absent == <<"absent", 0>>
\* an account with no role, no function and no secret
NoCloud == [role |-> Absent, function |-> Absent, secret |-> Absent]

NoCall == [source_name |-> "", config |-> JNull, have_requests |-> FALSE,
           resp |-> [net |-> "error", status |-> 0, body |-> Invalid]]

\* line 59: the context of an invocation is absent or carries a request id;
\* `context.request_id if context else 'local-test'`
NoContext == <<"none", "">>
Context(request_id) == <<"context", request_id>>
ExecutionId(context) == IF context = NoContext THEN "local-test" ELSE context[2]

\* a tracker that starts as failed
InitialResultsFailed ==
    [execution_id |-> ExecutionId(NoContext), end_time |-> JNull, duration_seconds |-> JNull, success |-> FALSE,
     sources_processed |-> <<>>, total_records |-> 0, errors |-> <<>>,
     files_created |-> <<>>]

\* lines 58-68
InitialResults ==
    [execution_id |-> ExecutionId(NoContext), end_time |-> JNull, duration_seconds |-> JNull, success |-> TRUE,
     sources_processed |-> <<>>, total_records |-> 0, errors |-> <<>>,
     files_created |-> <<>>]

Init ==
    /\ pc = "config"
    /\ secret \in Secrets
    /\ have_requests \in BOOLEAN
    /\ config = JNull
    /\ idx = 0
    /\ results = InitialResults
    /\ raw_data = JNull
    /\ transformed_data = <<>>
    /\ s3 = <<>>
    /\ response = JNull
    /\ log = <<>>
    /\ fatal_at = "none"
    /\ call = NoCall
    /\ returned = Ret(JNull)
    /\ requests_made = <<>>
    /\ clock = 0
    /\ cloud = NoCloud

\* an outer except that records the error and leaves the success flag alone
FatalHandlerKeepsSuccess(res, exc) ==
    [res EXCEPT !.errors = Append(@, [kind |-> "fatal", source |-> "", exc |-> exc])]

\* lines 118-122: the outer except
FatalHandler(res, exc) ==
    [res EXCEPT !.success = FALSE,
                !.errors = Append(@, [kind |-> "fatal", source |-> "", exc |-> exc])]

\* a per-source except that starts the record count again
SourceErrorResetsTotal(res, source_name, exc) ==
    [res EXCEPT !.total_records = 0,
                !.errors =
        Append(@, [kind |-> "source", source |-> source_name, exc |-> exc])]

\* a per-source except that also lists the source as processed
SourceErrorListsSource(res, source_name, exc) ==
    [res EXCEPT !.sources_processed = Append(@, source_name),
                !.errors =
        Append(@, [kind |-> "source", source |-> source_name, exc |-> exc])]

\* a per-source except that fails the run
SourceErrorFailsRun(res, source_name, exc) ==
    [res EXCEPT !.success = FALSE,
                !.errors =
        Append(@, [kind |-> "source", source |-> source_name, exc |-> exc])]

\* lines 107-111: the per-source except
SourceError(res, source_name, exc) ==
    [res EXCEPT !.errors =
        Append(@, [kind |-> "source", source |-> source_name, exc |-> exc])]

\* an else branch that records an error for the source
NoDataAsError(res, source_name) == SourceError(res, source_name, "NoData")

\* lines 104-105: no data received
NoData(res, source_name) == res

\* a tracker that puts the newest source first
SourceDoneFirst(res, source_name, n, file_path) ==
    [res EXCEPT !.sources_processed = <<source_name>> \o @,
                !.total_records = @ + n,
                !.files_created = Append(@, file_path)]

\* lines 99-101
SourceDone(res, source_name, n, file_path) ==
    [res EXCEPT !.sources_processed = Append(@, source_name),
                !.total_records = @ + n,
                !.files_created = Append(@, file_path)]

\* a response that always reports 200
StatusCodeAlwaysOk(res) == HTTP_OK

\* line 143
StatusCode(res) == IF res.success THEN HTTP_OK ELSE HTTP_FAILED

\* a key that files every source under marketing
DataKeyUnderMarketing(source_name, current_date, timestamp) ==
    [prefix |-> "data", name |-> "marketing", date |-> current_date,
     stamp |-> timestamp]

\* a key that does not name the source
DataKeyWithoutSource(source_name, current_date, timestamp) ==
    [prefix |-> "data", name |-> "data", date |-> current_date, stamp |-> timestamp]

\* line 392: data/<source>/date=<current_date>/<source>_<timestamp>.json
DataKey(source_name, current_date, timestamp) ==
    [prefix |-> "data", name |-> source_name, date |-> current_date,
     stamp |-> timestamp]
\* line 435: metadata/executions/date=<current_date>/execution_<id>.json
SummaryKeyOf(execution_id, current_date) ==
    [prefix |-> "metadata/executions", date |-> current_date,
     name |-> "execution", id |-> execution_id]

\* the summary key of a run invoked without context while the clock reads 0
SummaryKey == SummaryKeyOf(ExecutionId(NoContext), StrfDate(0))

\* lines 416-432
SummaryOf(res, cfg) ==
    [duration_seconds |-> res.duration_seconds,
     success |-> res.success,
     sources_configured |-> PyLen(Get(cfg, "data_sources", JObj(EmptyMap))).val,
     sources_processed |-> res.sources_processed,
     total_records |-> res.total_records,
     files_created |-> res.files_created,
     errors |-> res.errors]

\* lines 414-446: the object put_object stores, by its key and content; t1,
\* t2 and t3 are what the three datetime.now() of lines 418, 419 and 434 read
save_execution_summary(res, cfg, t1, t2, t3) ==
    [key |-> SummaryKeyOf(res.execution_id, StrfDate(t3)),
     summary |-> SummaryOf(res, cfg),
     execution_id |-> res.execution_id,
     execution_date |-> StrfDate(t1),
     execution_time |-> IsoFormat(t2)]

\* lines 387-411: the object put_object stores, by its key and metadata; t1,
\* t2 and t3 are what the three datetime.now() of lines 389, 390 and 398 read
load_to_s3(data, source_name, t1, t2, t3) ==
    LET current_date == StrfDate(t1)
        timestamp == StrfTimestamp(t2)
    IN [key |-> DataKey(source_name, current_date, timestamp),
        source |-> source_name,
        record_count |-> Len(data),
        extracted_date |-> current_date,
        extracted_timestamp |-> IsoFormat(t3)]

\* lines 87-111: the body of the loop for one source: the tracker it
\* leaves, what became of the source, and the object it wrote
ProcessSource(res, source_name, source_config, requests_ok, resp, put_ok, now) ==
    LET raw == extract_data_safe(source_name, source_config, requests_ok, resp)
        failed(exc) == [results |-> SourceError(res, source_name, exc),
                        outcome |-> "error", added |-> 0, put |-> JNull]
    IN IF Raised(raw) THEN failed(raw.exc)
       ELSE IF ~Truthy(raw.val)
       THEN [results |-> NoData(res, source_name), outcome |-> "nodata",
             added |-> 0, put |-> JNull]
       ELSE LET t == transform_data(source_name, raw.val, now) IN
            IF Raised(t) THEN failed(t.exc)
            ELSE IF ~put_ok THEN failed("ClientError")
            ELSE LET put == load_to_s3(t.val, source_name, now, now, now) IN
                 [results |-> SourceDone(res, source_name, Len(t.val), put.key),
                  outcome |-> "processed", added |-> Len(t.val), put |-> put]

Sources == config[2]["data_sources"][2]
Current == Sources[idx]

\* a loop that takes the same source again
NextSourceAgain ==
    /\ idx' = idx
    /\ pc' = "extract"
    /\ raw_data' = JNull
    /\ transformed_data' = <<>>

\* the loop moves to the next source, or leaves for the summary
NextSource ==
    /\ idx' = idx + 1
    /\ pc' = IF idx + 1 > Len(Sources) THEN "summary" ELSE "extract"
    /\ raw_data' = JNull
    /\ transformed_data' = <<>>

LogEntry(source_name, none, stage, outcome, added) ==
    [source |-> source_name, returned_none |-> none, raised_in |-> stage,
     outcome |-> outcome, added |-> added]

\* lines 71-84: load the configuration and enter the loop
LoadConfiguration ==
    /\ pc = "config"
    /\ LET got == get_configuration(secret)
           cfg == got.val
           srcs == IF Raised(got) THEN got ELSE SourcesOf(cfg)
       IN /\ config' = cfg
          /\ IF Raised(srcs)
             THEN /\ results' = FatalHandler(results, srcs.exc)
                  /\ fatal_at' = "config"
                  /\ pc' = "finalize"
                  /\ idx' = idx
             ELSE /\ results' = results
                  /\ fatal_at' = fatal_at
                  /\ idx' = 1
                  /\ pc' = IF Len(srcs.val) = 0 THEN "summary" ELSE "extract"
    /\ UNCHANGED <<secret, have_requests, raw_data, transformed_data, s3,
                   response, log, call, returned, requests_made, clock, cloud>>

\* lines 89-91 and 104-105: extract the current source
Extract ==
    /\ pc = "extract"
    /\ \E resp \in RunResponses :
        LET name == Current.name
            o == extract_data_safe(name, Current.config, have_requests, resp)
            inner == IF have_requests
                     THEN PrimaryBody(name, Current.config, have_requests, resp)
                     ELSE FallbackBody(name, Current.config, resp)
            stage == IF Raised(inner) THEN "extract" ELSE "none"
        IN /\ requests_made' = requests_made
                                \o RequestsOf(name, Current.config, have_requests, resp)
           /\ IF Raised(o)
              THEN /\ results' = SourceError(results, name, o.exc)
                   /\ log' = Append(log, LogEntry(name, FALSE, "extract", "error", 0))
                   /\ NextSource
              ELSE IF Truthy(o.val)
              THEN /\ raw_data' = o.val
                   /\ pc' = "transform"
                   /\ UNCHANGED <<results, log, idx, transformed_data>>
              ELSE /\ results' = NoData(results, name)
                   /\ log' = Append(log, LogEntry(name, o.val = JNull, stage, "nodata",
                                                  results'.total_records - results.total_records))
                   /\ NextSource
    /\ UNCHANGED <<secret, have_requests, config, s3, response, fatal_at, call, returned,
                   clock, cloud>>

\* line 93: transform the extracted records
Transform ==
    /\ pc = "transform"
    /\ LET name == Current.name
           o == transform_data(name, raw_data, clock)
       IN IF Raised(o)
          THEN /\ results' = SourceError(results, name, o.exc)
               /\ log' = Append(log, LogEntry(name, FALSE, "transform", "error", 0))
               /\ NextSource
          ELSE /\ transformed_data' = o.val
               /\ pc' = "load"
               /\ UNCHANGED <<results, log, idx, raw_data>>
    /\ UNCHANGED <<secret, have_requests, config, s3, response, fatal_at, call, returned,
                   requests_made, clock, cloud>>

\* lines 96-103: write the object and update the results
Load ==
    /\ pc = "load"
    /\ \E put_ok \in BOOLEAN :
        LET name == Current.name IN
        IF put_ok
        THEN /\ s3' = Append(s3, load_to_s3(transformed_data, name, clock, clock, clock))
             /\ results' = SourceDone(results, name, Len(transformed_data),
                                      s3'[Len(s3')].key)
             /\ log' = Append(log, LogEntry(name, FALSE, "none", "processed",
                                            Len(transformed_data)))
             /\ NextSource
        ELSE /\ s3' = s3
             /\ results' = SourceError(results, name, "ClientError")
             /\ log' = Append(log, LogEntry(name, FALSE, "load", "error", 0))
             /\ NextSource
    /\ UNCHANGED <<secret, have_requests, config, response, fatal_at, call, returned,
                   requests_made, clock, cloud>>

\* lines 113-116: write the execution summary
SaveSummary ==
    /\ pc = "summary"
    /\ \E put_ok \in BOOLEAN :
        IF put_ok
        THEN /\ s3' = Append(s3, save_execution_summary(results, config,
                                                         clock, clock, clock))
             /\ results' = [results EXCEPT !.files_created =
                                            Append(@, s3'[Len(s3')].key)]
             /\ fatal_at' = fatal_at
        ELSE /\ s3' = s3
             /\ results' = FatalHandler(results, "ClientError")
             /\ fatal_at' = "summary"
    /\ pc' = "finalize"
    /\ UNCHANGED <<secret, have_requests, config, idx, raw_data, transformed_data,
                   response, log, call, returned, requests_made, clock, cloud>>

\* lines 124-148: finish the results, log them, return the envelope; the log
\* line 135 can raise, and then the handler ends with that exception
Finalize ==
    /\ pc = "finalize"
    /\ results' = [results EXCEPT !.end_time = JStr(<<"end">>),
                                  !.duration_seconds = JNum(0)]
    /\ IF FinalLogRaises(config)
       THEN /\ pc' = "raised"
            /\ response' = response
       ELSE /\ pc' = "done"
            /\ response' = [statusCode |-> StatusCode(results'),
                            body |-> results',
                            headers |-> [ContentType |-> "application/json"]]
    /\ UNCHANGED <<secret, have_requests, config, idx, raw_data, transformed_data,
                   s3, log, fatal_at, call, returned, requests_made, clock, cloud>>

Next ==
    \/ LoadConfiguration
    \/ Extract
    \/ Transform
    \/ Load
    \/ SaveSummary
    \/ Finalize

Spec == Init /\ [][Next]_vars

\* the runs that enter the source loop: the secret cannot be read (the
\* built-in configuration is used) or holds a document whose data_sources
\* is a mapping
InitLoop ==
    /\ Init
    /\ ~Raised(SourcesOf(get_configuration(secret).val))

SpecLoop == InitLoop /\ [][Next]_vars

(***************************************************************************)
(* One call of extract_data_safe, for every source name, source config,    *)
(* client and HTTP outcome.                                                *)
(***************************************************************************)
\* the configs a call can be given: those of a stored secret, a config that
\* is no mapping, a default_limit that is no number
CallConfigs(name) ==
    SourceConfigs(name)
    \cup {JNull, JObj("url" :> Url @@ "default_limit" :> JStr(<<"x">>))}

ExtractCalls ==
    {[source_name |-> n, config |-> c, have_requests |-> h, resp |-> r] :
        n \in SourceNames, c \in UNION {CallConfigs(m) : m \in SourceNames},
        h \in BOOLEAN, r \in Responses}

InitExtract ==
    /\ pc = "call"
    /\ call \in {c \in ExtractCalls : c.config \in CallConfigs(c.source_name)}
    /\ returned = Ret(JNull)
    /\ secret = [ok |-> FALSE, doc |-> Invalid]
    /\ have_requests = call.have_requests
    /\ config = JNull
    /\ idx = 0
    /\ results = InitialResults
    /\ raw_data = JNull
    /\ transformed_data = <<>>
    /\ s3 = <<>>
    /\ response = JNull
    /\ log = <<>>
    /\ fatal_at = "none"
    /\ requests_made = <<>>
    /\ clock = 0
    /\ cloud = NoCloud

ExtractCall ==
    /\ pc = "call"
    /\ returned' = extract_data_safe(call.source_name, call.config,
                                     call.have_requests, call.resp)
    /\ requests_made' = RequestsOf(call.source_name, call.config,
                                   call.have_requests, call.resp)
    /\ pc' = "returned"
    /\ UNCHANGED <<secret, have_requests, config, idx, results, raw_data,
                   transformed_data, s3, response, log, fatal_at, call, clock, cloud>>

NextExtract == ExtractCall

SpecExtract == InitExtract /\ [][NextExtract]_vars

(***************************************************************************)
(* A sequence of load_to_s3 calls against one bucket, within a run or      *)
(* across runs, while the clock moves: between calls, and between the      *)
(* three clock reads of one call.                                          *)
(***************************************************************************)
\* the variables of the handler that a call of one function leaves alone
handler_vars == <<secret, have_requests, config, results, raw_data,
                  transformed_data, response, fatal_at, requests_made>>

HandlerIdle ==
    /\ secret = [ok |-> FALSE, doc |-> Invalid]
    /\ have_requests = FALSE
    /\ config = JNull
    /\ results = InitialResults
    /\ raw_data = JNull
    /\ transformed_data = <<>>
    /\ response = JNull
    /\ fatal_at = "none"
    /\ requests_made = <<>>

\* the clock runs over the last second of a day and the first of the next
ClockStart == (SecondsPerDay - 1) * TicksPerSecond
MaxClock == ClockStart + 2 * TicksPerSecond - 1

LoadSources == {"marketing", "sales"}
\* the transformed lists a call is given: one to MaxLen records
LoadData == {[i \in 1..n |-> JObj("source" :> JStr(<<"s">>))] : n \in 1..MaxLen}

InitLoad ==
    /\ pc = "loading"
    /\ HandlerIdle
    /\ idx = 0
    /\ s3 = <<>>
    /\ log = <<>>
    /\ clock = ClockStart
    /\ call = NoCall
    /\ returned = Ret(JNull)
    /\ cloud = NoCloud

\* one call: the reads t1 <= t2 <= t3 of the clock, then put_object
LoadCall ==
    /\ pc = "loading"
    /\ idx < MaxCalls
    /\ \E source_name \in LoadSources, data \in LoadData, d1, d2, d3 \in 0..1,
          put_ok \in BOOLEAN :
        LET t1 == clock + d1
            t2 == t1 + d2
            t3 == t2 + d3
            put == load_to_s3(data, source_name, t1, t2, t3)
        IN /\ t3 <= MaxClock
           /\ clock' = t3
           /\ s3' = IF put_ok THEN Append(s3, put) ELSE s3
           /\ returned' = IF put_ok THEN Ret(put.key) ELSE Raise("ClientError")
           /\ log' = Append(log, [source |-> source_name, t1 |-> t1, t2 |-> t2,
                                  t3 |-> t3, put_ok |-> put_ok,
                                  at |-> IF put_ok THEN Len(s3) + 1 ELSE 0])
    /\ idx' = idx + 1
    /\ UNCHANGED <<pc, call, cloud>>
    /\ UNCHANGED handler_vars

\* time passes between calls
Tick ==
    /\ pc = "loading"
    /\ clock < MaxClock
    /\ clock' = clock + 1
    /\ UNCHANGED <<pc, idx, s3, log, call, returned, cloud>>
    /\ UNCHANGED handler_vars

NextLoad == LoadCall \/ Tick

SpecLoad == InitLoad /\ [][NextLoad]_vars

(***************************************************************************)
(* One call of transform_data, for every source name, raw records with     *)
(* every subset of their fields, raw values that are no mapping, and       *)
(* every clock reading.                                                    *)
(***************************************************************************)
Restrict(f, K) == [k \in K |-> f[k]]
SubObjects(f) == {JObj(Restrict(f, K)) : K \in SUBSET DOMAIN f}

Text == JStr(<<"t">>)

\* a product, a post and a person with every field the projections read
MarketingFull ==
    "id" :> JNum(3) @@ "title" :> Text @@ "price" :> JNum(5) @@ "category" :> Text
    @@ "description" :> Text @@ "image" :> Text @@ "rating" :> JObj("rate" :> JNum(4))
SalesFull ==
    "id" :> JNum(3) @@ "userId" :> JNum(1) @@ "title" :> Text @@ "body" :> Text
NameFull == "first" :> JStr(<<"f">>) @@ "last" :> JStr(<<"l">>)
LocationFull == "country" :> Text @@ "city" :> Text
RegisteredFull == "date" :> Text

CrmValues(key) ==
    CASE key = "name" -> SubObjects(NameFull)
      [] key = "location" -> SubObjects(LocationFull)
      [] key = "registered" -> SubObjects(RegisteredFull)
      [] OTHER -> {Text}
CrmKeys == {"name", "email", "phone", "location", "registered"}
CrmRecords ==
    {JObj(f) :
        f \in UNION {{g \in [K -> UNION {CrmValues(k) : k \in CrmKeys}] :
                        \A k \in K : g[k] \in CrmValues(k)} : K \in SUBSET CrmKeys}}

\* the records of a source with any of their fields absent
FieldRecords(source_name) ==
    CASE source_name = "marketing" -> SubObjects(MarketingFull)
      [] source_name = "sales" -> SubObjects(SalesFull)
      [] source_name = "crm" -> CrmRecords
      [] OTHER -> {}

\* records that are no mapping
OtherRecords == {JStr(NameKey), JStr(<<"x">>), JList(<<JStr(NameKey)>>), JNum(7), JNull}

TransformInputs ==
    {JList(<<r>>) : r \in UNION {FieldRecords(n) : n \in KnownSources} \cup OtherRecords}
    \cup {JList(<<a, b>>) : a, b \in RawRecords \cup {JObj(MarketingFull)}}
    \cup {JList(<<>>), JNum(7), JStr(<<"x">>)}

InitTransform ==
    /\ pc = "transform_call"
    /\ HandlerIdle
    /\ call \in {[source_name |-> n, raw_data |-> d] :
                    n \in SourceNames, d \in TransformInputs}
    /\ clock \in ClockStart..MaxClock
    /\ returned = Ret(JNull)
    /\ idx = 0
    /\ s3 = <<>>
    /\ log = <<>>
    /\ cloud = NoCloud

TransformCall ==
    /\ pc = "transform_call"
    /\ returned' = transform_data(call.source_name, call.raw_data, clock)
    /\ pc' = "transformed"
    /\ UNCHANGED <<idx, s3, log, call, clock, cloud>>
    /\ UNCHANGED handler_vars

NextTransform == TransformCall

SpecTransform == InitTransform /\ [][NextTransform]_vars

(***************************************************************************)
(* The summaries of several runs against one bucket: each run is invoked   *)
(* with or without a context, reaches its summary step and calls           *)
(* save_execution_summary, while the clock moves.                          *)
(***************************************************************************)
\* no context, and two request ids (a re-invocation carries the id again)
Contexts == {NoContext, Context("r1"), Context("r2")}

InitSummary ==
    /\ pc = "invoking"
    /\ HandlerIdle
    /\ idx = 0
    /\ s3 = <<>>
    /\ log = <<>>
    /\ clock = ClockStart
    /\ call = NoCall
    /\ returned = Ret(JNull)
    /\ cloud = NoCloud

\* one run, from line 58 to line 115, whose sources all give no data
RunToSummary ==
    /\ pc = "invoking"
    /\ idx < MaxRuns
    /\ \E context \in Contexts, d1, d2, d3 \in 0..1, put_ok \in BOOLEAN :
        LET res == [InitialResults EXCEPT !.execution_id = ExecutionId(context)]
            t1 == clock + d1
            t2 == t1 + d2
            t3 == t2 + d3
            put == save_execution_summary(res, DefaultConfig, t1, t2, t3)
        IN /\ t3 <= MaxClock
           /\ clock' = t3
           /\ s3' = IF put_ok THEN Append(s3, put) ELSE s3
           /\ returned' = IF put_ok THEN Ret(put.key) ELSE Raise("ClientError")
           /\ log' = Append(log, [context |-> context, t3 |-> t3, put_ok |-> put_ok,
                                  at |-> IF put_ok THEN Len(s3) + 1 ELSE 0])
    /\ idx' = idx + 1
    /\ UNCHANGED <<pc, call, cloud>>
    /\ UNCHANGED handler_vars

\* time passes between runs
TickBetweenRuns ==
    /\ pc = "invoking"
    /\ clock < MaxClock
    /\ clock' = clock + 1
    /\ UNCHANGED <<pc, idx, s3, log, call, returned, cloud>>
    /\ UNCHANGED handler_vars

NextSummary == RunToSummary \/ TickBetweenRuns

SpecSummary == InitSummary /\ [][NextSummary]_vars

(***************************************************************************)
(* Two runs of the source loop side by side: the first over a              *)
(* configuration, the second over the same configuration without one of    *)
(* its sources; every source the two runs share gets the same response     *)
(* and the same outcome of put_object in both.                             *)
(***************************************************************************)
\* what lines 99-101 update
Tracker(res) ==
    [sources_processed |-> res.sources_processed,
     total_records |-> res.total_records,
     files_created |-> res.files_created]

\* the responses the shared sources get: no connection, an error status, a
\* body that is no JSON, no record, one record, two records, a record the
\* projections reject, and records under 'results'
IsolationResponses ==
    {[net |-> "error", status |-> 0, body |-> Invalid],
     [net |-> "ok", status |-> 404, body |-> JList(<<RecGood>>)],
     [net |-> "ok", status |-> HTTP_OK, body |-> Invalid],
     [net |-> "ok", status |-> HTTP_OK, body |-> JList(<<>>)],
     [net |-> "ok", status |-> HTTP_OK, body |-> JList(<<RecGood>>)],
     [net |-> "ok", status |-> HTTP_OK, body |-> JList(<<RecGood, RecGood>>)],
     [net |-> "ok", status |-> HTTP_OK, body |-> JList(<<RecBad>>)],
     [net |-> "ok", status |-> HTTP_OK, body |-> JObj("results" :> JList(<<RecGood>>))]}

\* the configurations of the first run: one source or more, each with its
\* URL and the default limit
IsolationConfigs ==
    {JObj("data_sources" :> JDict(s)) :
        s \in {l \in SourceLists \ {<<>>} :
                    \A i \in 1..Len(l) : l[i].config = JObj("url" :> Url)}}

InitIsolation ==
    /\ pc = "both_runs"
    /\ config \in IsolationConfigs
    /\ call \in {[skip |-> k] : k \in 1..MaxSources}
    /\ call.skip <= Len(Sources)
    /\ have_requests \in BOOLEAN
    /\ secret = [ok |-> TRUE, doc |-> config]
    /\ idx = 1
    /\ results = InitialResults
    /\ returned = [results |-> InitialResults, log |-> <<>>]
    /\ raw_data = JNull
    /\ transformed_data = <<>>
    /\ s3 = <<>>
    /\ response = JNull
    /\ log = <<>>
    /\ fatal_at = "none"
    /\ requests_made = <<>>
    /\ clock = ClockStart
    /\ cloud = NoCloud

\* a source of both configurations: each run processes it; the second run
\* reads the clock at the same time or a second later
ProcessInBoth ==
    /\ pc = "both_runs"
    /\ idx <= Len(Sources)
    /\ idx # call.skip
    /\ \E resp \in IsolationResponses, put_ok \in BOOLEAN,
          later \in {0, TicksPerSecond} :
        \E first \in {ProcessSource(results, Current.name, Current.config,
                                    have_requests, resp, put_ok, clock)},
           second \in {ProcessSource(returned.results, Current.name, Current.config,
                                     have_requests, resp, put_ok, clock + later)} :
           /\ results' = first.results
           /\ log' = Append(log, [source |-> Current.name, outcome |-> first.outcome,
                                  added |-> first.added, before |-> Tracker(results)])
           /\ returned' = [results |-> second.results,
                           log |-> Append(returned.log,
                                          [source |-> Current.name,
                                           outcome |-> second.outcome,
                                           added |-> second.added])]
           /\ s3' = IF first.outcome = "processed" THEN Append(s3, first.put) ELSE s3
    /\ idx' = idx + 1
    /\ UNCHANGED <<pc, secret, have_requests, config, raw_data, transformed_data,
                   response, fatal_at, call, requests_made, clock, cloud>>

\* the source the second configuration lacks: only the first run processes it
ProcessInFirstOnly ==
    /\ pc = "both_runs"
    /\ idx <= Len(Sources)
    /\ idx = call.skip
    /\ \E resp \in IsolationResponses, put_ok \in BOOLEAN :
        \E first \in {ProcessSource(results, Current.name, Current.config,
                                    have_requests, resp, put_ok, clock)} :
           /\ results' = first.results
           /\ log' = Append(log, [source |-> Current.name, outcome |-> first.outcome,
                                  added |-> first.added, before |-> Tracker(results)])
           /\ s3' = IF first.outcome = "processed" THEN Append(s3, first.put) ELSE s3
    /\ idx' = idx + 1
    /\ UNCHANGED <<pc, secret, have_requests, config, raw_data, transformed_data,
                   response, fatal_at, call, returned, requests_made, clock, cloud>>

NextIsolation == ProcessInBoth \/ ProcessInFirstOnly

SpecIsolation == InitIsolation /\ [][NextIsolation]_vars

(***************************************************************************)
(* The provisioning scripts: create_lambda_role.py, deploy_lambda.py and   *)
(* setup_secrets.py, run in any order against one account.  A run is the   *)
(* whole script; `fail` names the one API call of the run that answers     *)
(* with an error other than 'already exists', if any.                      *)
(***************************************************************************)
Exists(resource) == resource[1] # "absent"

Done(c) == [cloud |-> c, outcome |-> "ok"]
\* sys.exit(1), return False, or an exception nothing catches
Fatal(c) == [cloud |-> c, outcome |-> "fatal"]

\* create_lambda_role.py lines 44-52
RoleCreated ==
    <<"role", [trust |-> "lambda.amazonaws.com",
               description |-> "IAM role for data pipeline Lambda function",
               tags |-> "ManagedBy=Python", attached |-> {}, inline |-> "none"]>>

\* a role of that name made by someone else
ForeignRole ==
    <<"role", [trust |-> "ec2.amazonaws.com", description |-> "foreign",
               tags |-> "none", attached |-> {}, inline |-> "none"]>>

\* a script for which an existing role is an error like any other
create_lambda_roleNoReuse(c, fail) ==
    IF fail = "create_role" \/ Exists(c.role) THEN Fatal(c)
    ELSE Done([c EXCEPT !.role = RoleCreated])

\* create_lambda_role.py lines 40-66
create_lambda_role(c, fail) ==
    IF fail = "create_role" THEN Fatal(c)
    ELSE IF ~Exists(c.role) THEN Done([c EXCEPT !.role = RoleCreated])
    ELSE IF fail = "get_role" THEN Fatal(c)
    ELSE Done(c)

\* create_lambda_role.py lines 69-144: a failed attach is a warning
attach_policies(c, bucket, fail) ==
    LET attached == IF fail = "attach_role_policy" THEN c.role[2].attached
                    ELSE c.role[2].attached \cup {"AWSLambdaBasicExecutionRole"}
        c1 == [c EXCEPT !.role[2].attached = attached]
    IN IF fail = "put_role_policy" THEN Fatal(c1)
       ELSE Done([c1 EXCEPT !.role[2].inline = bucket])

\* create_lambda_role.py lines 147-164
RoleScript(c, bucket, fail) ==
    LET r == create_lambda_role(c, fail) IN
    IF r.outcome = "fatal" THEN r ELSE attach_policies(r.cloud, bucket, fail)

\* deploy_lambda.py lines 79-94
FunctionCreated(bucket, zip) ==
    <<"function", [code |-> zip, settings |-> "python3.9/60s/256MB",
                   environment |-> bucket,
                   description |-> "Data pipeline ETL function",
                   tags |-> "CreatedBy=Python", role |-> "lambda-data-pipeline-role"]>>

ForeignFunction ==
    <<"function", [code |-> "foreign", settings |-> "foreign", environment |-> "foreign",
                   description |-> "foreign", tags |-> "none", role |-> "foreign"]>>

\* deploy_lambda.py lines 109-125
CodeUpdated(function, zip) == [function EXCEPT ![2].code = zip]
ConfigurationUpdated(function, bucket) ==
    [function EXCEPT ![2].settings = "python3.9/60s/256MB",
                     ![2].environment = bucket,
                     ![2].description = "Data pipeline ETL function (Updated)"]

\* deploy_lambda.py lines 39-142
deploy_lambda(c, bucket, zip, fail) ==
    IF ~Exists(c.role) \/ fail = "get_role" THEN Fatal(c)
    ELSE IF zip = "missing" THEN Fatal(c)
    ELSE IF fail = "create_function" THEN Fatal(c)
    ELSE IF ~Exists(c.function)
    THEN Done([c EXCEPT !.function = FunctionCreated(bucket, zip)])
    ELSE IF fail = "update_function_code" THEN Fatal(c)
    ELSE LET c1 == [c EXCEPT !.function = CodeUpdated(@, zip)] IN
         IF fail = "update_function_configuration" THEN Fatal(c1)
         ELSE Done([c1 EXCEPT !.function = ConfigurationUpdated(@, bucket)])

\* setup_secrets.py lines 152-161
SecretCreated ==
    <<"secret", [string |-> "secret_data",
                 description |-> "Configuration for data pipeline - API endpoints and settings",
                 tags |-> "ManagedBy=Python"]>>

ForeignSecret ==
    <<"secret", [string |-> "foreign", description |-> "foreign", tags |-> "none"]>>

\* setup_secrets.py lines 171-175
SecretUpdated(secret_value) ==
    [secret_value EXCEPT
        ![2].string = "secret_data",
        ![2].description =
            "Configuration for data pipeline - API endpoints and settings (Updated)"]

\* setup_secrets.py lines 21-204
create_or_update_secret(c, fail) ==
    IF fail \in {"client", "create_secret"} THEN Fatal(c)
    ELSE IF ~Exists(c.secret) THEN Done([c EXCEPT !.secret = SecretCreated])
    ELSE IF fail = "update_secret" THEN Fatal(c)
    ELSE Done([c EXCEPT !.secret = SecretUpdated(@)])

Buckets == {"bucket-a", "bucket-b"}
Zips == {"zip-1", "zip-2", "missing"}
NoRun == [script |-> "none", outcome |-> "ok", existed |-> FALSE, before |-> Absent,
          bucket |-> "none", zip |-> "none", fail |-> "none"]

InitProvision ==
    /\ pc = "provisioning"
    /\ HandlerIdle
    /\ cloud \in [role : {Absent, ForeignRole}, function : {Absent, ForeignFunction},
                  secret : {Absent, ForeignSecret}]
    /\ returned = NoRun
    /\ idx = 0
    /\ s3 = <<>>
    /\ log = <<>>
    /\ call = NoCall
    /\ clock = 0

RunRoleScript ==
    /\ pc = "provisioning" /\ idx < MaxRuns
    /\ \E bucket \in Buckets,
          fail \in {"none", "create_role", "get_role", "attach_role_policy",
                    "put_role_policy"} :
        LET r == RoleScript(cloud, bucket, fail) IN
        /\ cloud' = r.cloud
        /\ returned' = [script |-> "create_lambda_role", outcome |-> r.outcome,
                        existed |-> Exists(cloud.role), before |-> cloud.role,
                        bucket |-> bucket, zip |-> "none", fail |-> fail]
    /\ idx' = idx + 1
    /\ UNCHANGED <<pc, s3, log, call, clock>>
    /\ UNCHANGED handler_vars

RunDeploy ==
    /\ pc = "provisioning" /\ idx < MaxRuns
    /\ \E bucket \in Buckets, zip \in Zips,
          fail \in {"none", "get_role", "create_function", "update_function_code",
                    "update_function_configuration"} :
        LET r == deploy_lambda(cloud, bucket, zip, fail) IN
        /\ cloud' = r.cloud
        /\ returned' = [script |-> "deploy_lambda", outcome |-> r.outcome,
                        existed |-> Exists(cloud.function) /\ Exists(cloud.role)
                                    /\ zip # "missing",
                        before |-> cloud.function,
                        bucket |-> bucket, zip |-> zip, fail |-> fail]
    /\ idx' = idx + 1
    /\ UNCHANGED <<pc, s3, log, call, clock>>
    /\ UNCHANGED handler_vars

RunSetupSecrets ==
    /\ pc = "provisioning" /\ idx < MaxRuns
    /\ \E fail \in {"none", "client", "create_secret", "update_secret"} :
        LET r == create_or_update_secret(cloud, fail) IN
        /\ cloud' = r.cloud
        /\ returned' = [script |-> "setup_secrets", outcome |-> r.outcome,
                        existed |-> Exists(cloud.secret), before |-> cloud.secret,
                        bucket |-> "none", zip |-> "none", fail |-> fail]
    /\ idx' = idx + 1
    /\ UNCHANGED <<pc, s3, log, call, clock>>
    /\ UNCHANGED handler_vars

NextProvision == RunRoleScript \/ RunDeploy \/ RunSetupSecrets

SpecProvision == InitProvision /\ [][NextProvision]_vars

(***************************************************************************)
(* Properties of a run                                                     *)
(***************************************************************************)
Ended == pc \in {"done", "raised"}
InLoop == pc \in {"extract", "transform", "load"}
AfterLoop == pc \in {"summary", "finalize", "done", "raised"}

\* the error strings that name a source
ErrorsNaming(source_name) ==
    {k \in 1..Len(results.errors) :
        results.errors[k].kind = "source" /\ results.errors[k].source = source_name}

InSeq(x, seq) == \E i \in 1..Len(seq) : seq[i] = x

ConfigUsable == config # JNull /\ ~Raised(SourcesOf(config))

SummaryWritten == \E i \in 1..Len(s3) : s3[i].key = SummaryKey

\* every configured source went through extract, transform and load
AllSourcesSucceeded ==
    /\ ConfigUsable
    /\ Len(log) = Len(Sources)
    /\ \A i \in 1..Len(log) : log[i].outcome = "processed"

\* C1: whatever the secret holds and whatever fails, lambda_handler returns
\* an envelope {statusCode, body, headers} and never ends by raising.
C1_AlwaysEnvelope ==
    /\ pc # "raised"
    /\ pc = "done" => DOMAIN response = {"statusCode", "body", "headers"}

\* C2: a source for which extract_data_safe returned None has, at the end of
\* the run, added nothing to total_records, is not in sources_processed, and
\* has an entry in errors.
C2_NoneIsAnError ==
    Ended =>
        \A i \in 1..Len(log) :
            log[i].returned_none =>
                /\ log[i].added = 0
                /\ ~InSeq(log[i].source, results.sources_processed)
                /\ ErrorsNaming(log[i].source) # {}

\* C3, as stated: a run that ends with success == false failed while loading
\* the configuration, and no source was extracted, transformed or loaded.
C3_OnlyConfigurationFails ==
    (Ended /\ ~results.success) =>
        /\ fatal_at = "config"
        /\ log = <<>>
        /\ s3 = <<>>

\* C3, amended: success is false exactly after the outer except has run, and
\* that is either for a failure before the loop (then no source was
\* extracted, transformed or loaded) or for a failure of the summary write
\* after the loop has gone through every source; inside the loop, and so
\* after any per-source failure, success is true.
C3_FailureIsConfigurationOrSummary ==
    /\ results.success <=> fatal_at = "none"
    /\ ~results.success =>
          /\ results.errors # <<>>
          /\ results.errors[Len(results.errors)].kind = "fatal"
    /\ fatal_at = "config" =>
          /\ log = <<>> /\ s3 = <<>> /\ idx = 0
          /\ results.sources_processed = <<>> /\ results.total_records = 0
    /\ fatal_at = "summary" =>
          /\ AfterLoop /\ pc # "summary"
          /\ Len(log) = Len(Sources)
          /\ ~SummaryWritten
    /\ (InLoop \/ pc = "summary") => results.success

C3_Witness ==
    /\ pc = "done"
    /\ ~results.success
    /\ fatal_at = "summary"
    /\ \E i \in 1..Len(log) : log[i].outcome = "error"
    /\ \E i \in 1..Len(log) : log[i].outcome = "processed"

\* C4: in every returned response, statusCode is 200 exactly when the body's
\* success is true and 500 exactly when it is false; there is no other code.
C4_StatusMatchesSuccess ==
    pc = "done" =>
        /\ response.statusCode = HTTP_OK <=> response.body.success
        /\ response.statusCode = HTTP_FAILED <=> ~response.body.success
        /\ response.statusCode \in {HTTP_OK, HTTP_FAILED}

C4_Witness ==
    /\ pc = "done"
    /\ response.statusCode = HTTP_FAILED
    /\ ~response.body.success
    /\ response.body.sources_processed # <<>>

C6_SourceExceptionIsRecorded ==
    \A i \in 1..Len(log) :
        log[i].raised_in # "none" =>
            /\ Cardinality(ErrorsNaming(log[i].source)) = 1
            /\ InLoop => results.success
            /\ AfterLoop => Len(log) = Len(Sources)

\* C10: when reading or parsing the secret fails, get_configuration gives
\* the built-in configuration of marketing, sales and crm; the run goes
\* through these three sources and is not failed for the retrieval failure.
C10_SecretFailureGivesDefaults ==
    Raised(ReadSecret(secret)) =>
        /\ pc # "config" =>
              /\ config = DefaultConfig
              /\ [i \in 1..Len(Sources) |-> Sources[i].name]
                    = <<"marketing", "sales", "crm">>
        /\ fatal_at # "config"
        /\ pc # "raised"
        /\ \A i \in 1..Len(log) : log[i].source = <<"marketing", "sales", "crm">>[i]
        /\ AfterLoop => Len(log) = 3
        /\ ~results.success => fatal_at = "summary"

C10_Witness ==
    /\ Raised(ReadSecret(secret))
    /\ pc = "done"
    /\ results.sources_processed = <<"marketing", "sales", "crm">>
    /\ results.success

(***************************************************************************)
(* Properties of a call of extract_data_safe                               *)
(***************************************************************************)
\* C7: extract_data_safe never raises to its caller and returns None or a
\* list of records, never a value of another type.
C7_NoneOrList ==
    pc = "returned" =>
        /\ ~Raised(returned)
        /\ returned.val[1] \in {"null", "list"}

\* the selection rule of the specification: results, data, products, a
\* single object wrapped in a list, a list cut to default_limit
SpecSelect(body, limit) ==
    IF body[1] = "obj"
    THEN IF "results" \in DOMAIN body[2] THEN body[2]["results"]
         ELSE IF "data" \in DOMAIN body[2] THEN body[2]["data"]
         ELSE IF "products" \in DOMAIN body[2] THEN body[2]["products"]
         ELSE JList(<<body>>)
    ELSE JList([i \in 1..Min(limit, Len(body[2])) |-> body[2][i]])

\* the call got a status-200 JSON response that is an object or a list, with
\* a config whose default_limit is a number (or absent)
GotJson ==
    /\ pc = "returned"
    /\ call.resp.net = "ok" /\ call.resp.status = HTTP_OK
    /\ call.resp.body[1] \in {"obj", "list"}
    /\ ~Raised(BuildUrl(call.source_name, call.config))
    /\ GetDefaultLimit(call.config).val[1] = "num"

\* C8: on a status-200 JSON response the records are selected by the first
\* matching rule: 'results', 'data', 'products', any other object wrapped in
\* a list, a list cut to its first default_limit elements.
C8_SelectionOrder ==
    GotJson =>
        returned = Ret(SpecSelect(call.resp.body, GetDefaultLimit(call.config).val[2]))

\* C9: with either client, a response whose status is not 200 or whose body
\* is not JSON makes extract_data_safe return None.
C9_BadResponseGivesNone ==
    (/\ pc = "returned"
     /\ call.resp.net = "ok"
     /\ call.resp.status # HTTP_OK \/ call.resp.body = Invalid)
        => returned = Ret(JNull)

C9_Witness ==
    /\ pc = "returned"
    /\ ~call.have_requests
    /\ call.resp.net = "ok" /\ call.resp.status = HTTP_OK
    /\ call.resp.body = Invalid
    /\ ~Raised(BuildUrl(call.source_name, call.config))
    /\ returned = Ret(JNull)

(***************************************************************************)
(* Properties of load_to_s3                                                *)
(***************************************************************************)
\* the calls that wrote an object
Written == {i \in 1..Len(log) : log[i].put_ok}
SameSecond(a, b) == a \div TicksPerSecond = b \div TicksPerSecond

StoredSummary == s3[CHOOSE i \in 1..Len(s3) : s3[i].key = SummaryKey].summary

\* C12: the summary written to storage agrees with the ExecutionResult of the
\* response body on duration_seconds, success, sources_processed,
\* files_created and errors (it is persisted when final, and final after)
C12_SummaryAgreesWithResult ==
    (pc = "done" /\ SummaryWritten) =>
        /\ StoredSummary.duration_seconds = response.body.duration_seconds
        /\ StoredSummary.success = response.body.success
        /\ StoredSummary.sources_processed = response.body.sources_processed
        /\ StoredSummary.files_created = response.body.files_created
        /\ StoredSummary.errors = response.body.errors

(***************************************************************************)
(* Properties of transform_data                                            *)
(***************************************************************************)
\* the fields of each payload and the raw field each is read from
Projection(source_name) ==
    CASE source_name = "marketing" ->
            {[payload |-> "product", field |-> k, path |-> <<k>>] :
                k \in {"id", "title", "price", "category", "description", "image",
                       "rating"}}
      [] source_name = "sales" ->
            {[payload |-> "sale", field |-> k, path |-> <<k>>] :
                k \in {"id", "title", "body"}}
            \cup {[payload |-> "sale", field |-> "user_id", path |-> <<"userId">>]}
      [] source_name = "crm" ->
            {[payload |-> "customer", field |-> k, path |-> <<k>>] :
                k \in {"email", "phone"}}
            \cup {[payload |-> "customer", field |-> "first_name", path |-> <<"name", "first">>],
                  [payload |-> "customer", field |-> "last_name", path |-> <<"name", "last">>],
                  [payload |-> "customer", field |-> "country", path |-> <<"location", "country">>],
                  [payload |-> "customer", field |-> "city", path |-> <<"location", "city">>],
                  [payload |-> "customer", field |-> "registered_date", path |-> <<"registered", "date">>]}
      [] OTHER -> {}

FieldAbsent(record, path) ==
    \/ path[1] \notin DOMAIN record[2]
    \/ Len(path) = 2 /\ path[2] \notin DOMAIN record[2][path[1]][2]

\* a call with a known source name and records that are mappings of that
\* source with some of their fields absent
FieldCall ==
    /\ pc = "transformed"
    /\ call.source_name \in KnownSources
    /\ call.raw_data[1] = "list"
    /\ \A i \in 1..Len(call.raw_data[2]) :
            call.raw_data[2][i] \in FieldRecords(call.source_name)

EmptyDefaults == {JStr(<<>>), JNum(0), JObj(EmptyMap)}

\* what the projection leaves for an absent field
DefaultOf(e) ==
    CASE e.field \in {"id", "user_id"} -> JNull
      [] e.field = "price" -> JNum(0)
      [] e.field = "rating" -> JObj(EmptyMap)
      [] OTHER -> JStr(<<>>)

\* C13 as stated: transform_data does not raise, and every absent field of
\* the payload is the empty string, zero or the empty mapping
C13_AbsentFieldsAreEmpty ==
    FieldCall =>
        /\ ~Raised(returned)
        /\ \A i \in 1..Len(call.raw_data[2]) :
            \A e \in Projection(call.source_name) :
                FieldAbsent(call.raw_data[2][i], e.path)
                    => /\ e.payload \in DOMAIN returned.val[i][2]
                       /\ returned.val[i][2][e.payload][2][e.field] \in EmptyDefaults

\* C13: transform_data does not raise; a crm record without 'name' gets no
\* customer; in every other payload an absent field is None for id and
\* user_id, 0 for price, the empty mapping for rating, the empty string for
\* the rest
C13_AbsentFieldsGetDefaults ==
    FieldCall =>
        /\ ~Raised(returned)
        /\ Len(returned.val) = Len(call.raw_data[2])
        /\ \A i \in 1..Len(call.raw_data[2]) :
            LET record == call.raw_data[2][i]
                out == returned.val[i][2]
            IN IF call.source_name = "crm" /\ "name" \notin DOMAIN record[2]
               THEN "customer" \notin DOMAIN out
               ELSE \A e \in Projection(call.source_name) :
                        /\ e.payload \in DOMAIN out
                        /\ FieldAbsent(record, e.path)
                              => out[e.payload][2][e.field] = DefaultOf(e)

\* a product, a post and a person's name with no field at all went through
C13_Witness ==
    /\ FieldCall
    /\ call.raw_data \in {JList(<<JObj(EmptyMap)>>), JList(<<JObj("name" :> JObj(EmptyMap))>>)}
    /\ ~Raised(returned)
    /\ \E e \in Projection(call.source_name) :
        /\ e.payload \in DOMAIN returned.val[1][2]
        /\ returned.val[1][2][e.payload][2][e.field] = JStr(<<>>)

EnvelopeKeys == {"record_id", "source", "extracted_at", "extracted_date", "raw_data"}

HasNameField(record) == record[1] = "obj" /\ "name" \in DOMAIN record[2]

PayloadKeys(source_name, record) ==
    CASE source_name = "marketing" -> {"product"}
      [] source_name = "sales" -> {"sale"}
      [] source_name = "crm" -> IF HasNameField(record) THEN {"customer"} ELSE {}
      [] OTHER -> {}

\* the records the call was given, when it was given a list
Given == IF call.raw_data[1] = "list" THEN call.raw_data[2] ELSE <<>>

\* C14: every record transform_data returns has the five envelope keys and,
\* besides them, 'product' for marketing, 'sale' for sales, 'customer' for a
\* crm record with a 'name' field and nothing for any other source name; crm
\* records that are mappings without 'name' are returned, with no customer
C14_PayloadByName ==
    pc = "transformed" =>
        /\ (~Raised(returned) /\ call.raw_data[1] = "list") =>
                \A i \in 1..Len(returned.val) :
                    /\ returned.val[i][1] = "obj"
                    /\ DOMAIN returned.val[i][2]
                         = EnvelopeKeys \cup PayloadKeys(call.source_name, Given[i])
                    /\ returned.val[i][2]["source"] = JStr(<<call.source_name>>)
                    /\ returned.val[i][2]["raw_data"] = Given[i]
        /\ (/\ call.source_name = "crm"
            /\ call.raw_data[1] = "list"
            /\ \A i \in 1..Len(Given) : Given[i][1] = "obj" /\ ~HasNameField(Given[i]))
                => ~Raised(returned) /\ Len(returned.val) = Len(Given)

\* a crm record with an email and no name came back with the envelope only,
\* and one with a name came back with a customer
C14_Witness ==
    /\ pc = "transformed"
    /\ call.source_name = "crm"
    /\ ~Raised(returned)
    /\ Len(Given) = 1
    /\ Given[1][1] = "obj"
    /\ \/ /\ Given[1] = JObj("email" :> Text)
          /\ DOMAIN returned.val[1][2] = EnvelopeKeys
       \/ /\ Given[1] = JObj("name" :> JObj(NameFull))
          /\ "customer" \in DOMAIN returned.val[1][2]

HexCharacters == {"0", "1", "2", "3", "4", "5", "6", "7", "8", "9",
                  "a", "b", "c", "d", "e", "f"}

\* C15: the record_id of every record transform_data returns, for every
\* source name and raw record, is a string of exactly 12 hexadecimal characters
C15_RecordIdIsTwelveHex ==
    (pc = "transformed" /\ ~Raised(returned)) =>
        \A i \in 1..Len(returned.val) :
            LET record_id == returned.val[i][2]["record_id"]
            IN /\ record_id[1] = "str"
               /\ Len(record_id[2]) = 12
               /\ \A k \in 1..Len(record_id[2]) : record_id[2][k] \in HexCharacters

\* two records of an unrecognized source, and a record that is null, got ids
C15_Witness ==
    /\ pc = "transformed"
    /\ ~Raised(returned)
    /\ call.source_name = "other"
    /\ \/ Len(returned.val) = 2
       \/ Len(Given) = 1 /\ Len(returned.val) = 1 /\ Given[1] = JNull
    /\ Len(returned.val[1][2]["record_id"][2]) = 12

(***************************************************************************)
(* Properties of the provisioning scripts                                  *)
(***************************************************************************)
\* a script has run and found its resource in place; no API call answered
\* with any other error
ReRun ==
    /\ pc = "provisioning"
    /\ returned.script # "none"
    /\ returned.existed
    /\ returned.fail = "none"

\* the resource of the script that ran last
Resource ==
    CASE returned.script = "create_lambda_role" -> cloud.role
      [] returned.script = "deploy_lambda" -> cloud.function
      [] OTHER -> cloud.secret

\* what a first run of that script with the same inputs leaves
FirstRun ==
    CASE returned.script = "create_lambda_role" ->
            [RoleCreated EXCEPT ![2].attached = {"AWSLambdaBasicExecutionRole"},
                                ![2].inline = returned.bucket]
      [] returned.script = "deploy_lambda" ->
            FunctionCreated(returned.bucket, returned.zip)
      [] OTHER -> SecretCreated

\* C16 as stated: a script that finds in place the resource its first run
\* made does not fail, and leaves the resource as the first run left it
C16_ReRunEndsAsFirstRun ==
    (ReRun /\ returned.before = FirstRun) =>
        returned.outcome = "ok" /\ Resource = FirstRun

\* C16: a script that finds its resource in place does not fail; it leaves
\* an existing role as it was and sets its policies, gives an existing
\* function the code, settings and environment of a first run and an
\* existing secret the secret string of a first run, marks the description
\* of the function and of the secret as updated, and leaves their tags (and
\* the function's role) as they were
C16_ReRunUpdatesInPlace ==
    ReRun =>
        /\ returned.outcome = "ok"
        /\ Exists(Resource)
        /\ returned.script = "create_lambda_role" =>
                /\ Resource = [returned.before EXCEPT
                                  ![2].attached = @ \cup FirstRun[2].attached,
                                  ![2].inline = FirstRun[2].inline]
        /\ returned.script = "deploy_lambda" =>
                /\ Resource = [returned.before EXCEPT
                                  ![2].code = FirstRun[2].code,
                                  ![2].settings = FirstRun[2].settings,
                                  ![2].environment = FirstRun[2].environment,
                                  ![2].description = "Data pipeline ETL function (Updated)"]
                /\ Resource[2].description # FirstRun[2].description
        /\ returned.script = "setup_secrets" =>
                /\ Resource = [returned.before EXCEPT
                                  ![2].string = FirstRun[2].string,
                                  ![2].description =
                                      "Configuration for data pipeline - API endpoints and settings (Updated)"]
                /\ Resource[2].description # FirstRun[2].description

\* the deploy script ran a second time on the function its first run made
C16_Witness ==
    /\ ReRun
    /\ returned.script = "deploy_lambda"
    /\ returned.before = FunctionCreated(returned.bucket, returned.zip)
    /\ returned.outcome = "ok"
    /\ cloud.function[2].description = "Data pipeline ETL function (Updated)"

(***************************************************************************)
(* Properties of the source loop                                           *)
(***************************************************************************)
\* the configured source names, in iteration order
ConfiguredNames == [i \in 1..Len(Sources) |-> Sources[i].name]

\* s picks elements of t in the order of t (the elements of t are distinct)
IsSubsequence(s, t) ==
    /\ \A i \in 1..Len(s) : InSeq(s[i], t)
    /\ \A i, j \in 1..Len(s) :
            i < j => (CHOOSE k \in 1..Len(t) : t[k] = s[i])
                        < (CHOOSE k \in 1..Len(t) : t[k] = s[j])

\* C17: sources are processed one at a time in configuration order: while a
\* source is extracted, transformed or loaded, every source before it has
\* finished or failed and no source after it has been touched; the requests,
\* the data objects and sources_processed follow the configuration order
C17_OneSourceAtATime ==
    (ConfigUsable /\ pc # "config") =>
        /\ Len(log) <= Len(Sources)
        /\ \A i \in 1..Len(log) : log[i].source = ConfiguredNames[i]
        /\ InLoop => /\ idx \in 1..Len(Sources)
                     /\ Len(log) = idx - 1
                     /\ \A i \in 1..Len(requests_made) :
                            \E k \in 1..idx : requests_made[i].source = ConfiguredNames[k]
        /\ pc = "extract" => raw_data = JNull /\ transformed_data = <<>>
        /\ AfterLoop => Len(log) = Len(Sources)
        /\ IsSubsequence(results.sources_processed, ConfiguredNames)
        /\ IsSubsequence([i \in 1..Len(requests_made) |-> requests_made[i].source],
                         ConfiguredNames)

\* both sources of a two-source configuration were processed
C17_Witness ==
    /\ pc = "done"
    /\ ConfigUsable
    /\ Len(Sources) = 2
    /\ results.sources_processed = ConfiguredNames

\* the data objects written for a source, the requests made for it, the
\* summaries written
DataObjectsOf(source_name) ==
    {i \in 1..Len(s3) : s3[i].key # SummaryKey /\ s3[i].source = source_name}
RequestsFor(source_name) ==
    {i \in 1..Len(requests_made) : requests_made[i].source = source_name}
Summaries == {i \in 1..Len(s3) : s3[i].key = SummaryKey}

\* C18: in a run, at most one GET is issued and at most one data object is
\* written for each configured source, and at most one summary object is
\* written, whatever fails
C18_NothingIsRetried ==
    (ConfigUsable /\ pc # "config") =>
        /\ \A k \in 1..Len(Sources) :
            /\ Cardinality(RequestsFor(ConfiguredNames[k])) <= 1
            /\ Cardinality(DataObjectsOf(ConfiguredNames[k])) <= 1
        /\ Len(requests_made) <= Len(Sources)
        /\ Cardinality(Summaries) <= 1

\* a run ended in which one source failed in its request, another in its
\* load, and each was asked for once
C18_Witness ==
    /\ pc = "done"
    /\ ConfigUsable
    /\ Len(Sources) = 2
    /\ Len(requests_made) = 2
    /\ \E i, j \in 1..Len(log) :
        /\ log[i].outcome = "nodata" /\ log[i].raised_in = "extract"
        /\ log[j].outcome = "error" /\ log[j].raised_in = "load"

(***************************************************************************)
(* Properties of the clients of extract_data_safe                          *)
(***************************************************************************)
\* a call for an unrecognized source whose config is a mapping without 'url'
NoUrlCall ==
    /\ pc = "returned"
    /\ call.source_name \notin KnownSources
    /\ call.config[1] = "obj"
    /\ "url" \notin DOMAIN call.config[2]

\* C19 as stated: for an unrecognized source without 'url', the key error
\* leaves extract_data_safe and reaches its caller
C19_KeyErrorPropagates ==
    NoUrlCall => returned.exc = "KeyError"

\* C19: for an unrecognized source without 'url', config['url'] raises a key
\* error that is caught inside extract_data_safe: the call issues no request
\* and returns None
C19_KeyErrorGivesNone ==
    NoUrlCall =>
        /\ BuildUrl(call.source_name, call.config) = Raise("KeyError")
        /\ returned = Ret(JNull)
        /\ requests_made = <<>>

\* such a call was made with each client
C19_Witness ==
    /\ NoUrlCall
    /\ call.source_name = "other"
    /\ call.config = JObj("default_limit" :> JNum(1))
    /\ returned = Ret(JNull)

ClientsUsed == {requests_made[i].client : i \in 1..Len(requests_made)}

\* C20: the urllib3 client makes the request exactly when requests cannot be
\* imported (and there is a URL to ask); a call makes at most one request,
\* and one that failed with the requests client is not repeated with urllib3
C20_FallbackOnlyWithoutPrimary ==
    pc = "returned" =>
        /\ Len(requests_made) <= 1
        /\ "urllib3" \in ClientsUsed => ~call.have_requests
        /\ "requests" \in ClientsUsed => call.have_requests
        /\ UrlBuilt(call.source_name, call.config) =>
                ClientsUsed = IF call.have_requests THEN {"requests"} ELSE {"urllib3"}
        /\ (call.have_requests /\ (call.resp.net # "ok" \/ call.resp.status # 200
                                   \/ call.resp.body = Invalid))
                => "urllib3" \notin ClientsUsed /\ (Raised(returned) \/ returned.val = JNull)

\* a request made with the requests client failed to connect, and the call
\* ended there
C20_Witness ==
    /\ pc = "returned"
    /\ call.have_requests
    /\ call.resp.net = "error"
    /\ requests_made = <<[source |-> call.source_name, client |-> "requests"]>>
    /\ returned = Ret(JNull)

(***************************************************************************)
(* Properties of the objects and the tracker of a run                      *)
(***************************************************************************)
Processed(source_name) == InSeq(source_name, results.sources_processed)

\* C21: in every run, one data object is in the bucket for each source in
\* sources_processed and none for any other configured source; the key of a
\* data object is data/<source>/date=<date>/<source>_<timestamp>.json for
\* the source named in its metadata, and is the key listed in files_created
C21_OneObjectPerProcessedSource ==
    (ConfigUsable /\ pc # "config") =>
        /\ \A k \in 1..Len(Sources) :
            Cardinality(DataObjectsOf(Sources[k].name))
                = IF Processed(Sources[k].name) THEN 1 ELSE 0
        /\ \A i \in 1..Len(s3) :
            s3[i].key # SummaryKey =>
                /\ s3[i].key = [prefix |-> "data", name |-> s3[i].source,
                                date |-> s3[i].extracted_date,
                                stamp |-> s3[i].key.stamp]
                /\ Processed(s3[i].source)
                /\ InSeq(s3[i].key, results.files_created)

\* of two configured sources, one was loaded and the other failed: the
\* bucket holds the object of the first and nothing for the second
C21_Witness ==
    /\ pc = "done"
    /\ ConfigUsable
    /\ Len(Sources) = 2
    /\ results.sources_processed = <<Sources[2].name>>
    /\ Cardinality(DataObjectsOf(Sources[2].name)) = 1
    /\ DataObjectsOf(Sources[1].name) = {}
    /\ log[1].outcome = "error"

\* the extraction of the i-th source returned an empty list (the only value
\* a response of Responses yields that is falsy and not None)
EmptyListAt(i) == log[i].outcome = "nodata" /\ ~log[i].returned_none

\* what the else branch of lines 104-105 leaves for the i-th source
UntouchedAt(i) ==
    /\ ~Processed(log[i].source)
    /\ ErrorsNaming(log[i].source) = {}
    /\ DataObjectsOf(log[i].source) = {}
    /\ log[i].added = 0
    /\ log[i].raised_in = "none"

\* C22 as stated: a source whose extraction returns an empty list is not
\* transformed, loaded, listed or reported, and the run ends with
\* success == true
C22_EmptyListKeepsSuccess ==
    (ConfigUsable /\ pc # "config") =>
        \A i \in 1..Len(log) :
            EmptyListAt(i) => UntouchedAt(i) /\ (Ended => results.success)

\* C22: a source whose extraction returns an empty list is not transformed,
\* loaded, listed or reported; the run then ends with success == true
\* unless writing the summary fails
C22_EmptyListIsNoData ==
    (ConfigUsable /\ pc # "config") =>
        \A i \in 1..Len(log) :
            EmptyListAt(i) =>
                /\ UntouchedAt(i)
                /\ Ended => (results.success <=> fatal_at # "summary")
                /\ Ended => (results.success <=> SummaryWritten)

\* the only source of a run returned an empty list and the run succeeded
C22_Witness ==
    /\ pc = "done"
    /\ ConfigUsable
    /\ Len(log) = 1
    /\ EmptyListAt(1)
    /\ results.success
    /\ results.errors = <<>>
    /\ results.sources_processed = <<>>

\* C23: a summary is in the bucket only in a run that reached the summary
\* step with no fatal error: every stored summary records success == true,
\* and the returned result lists the summary key exactly when it reports
\* success == true
C23_SummaryOnlyWithoutFatalError ==
    /\ \A i \in 1..Len(s3) : s3[i].key = SummaryKey => s3[i].summary.success
    /\ SummaryWritten => fatal_at = "none" /\ pc \in {"finalize", "done"}
    /\ pc = "done" =>
        /\ InSeq(SummaryKey, response.body.files_created) <=> response.body.success
        /\ InSeq(SummaryKey, response.body.files_created) <=> SummaryWritten

\* a run reached the summary step, the write of the summary failed, and the
\* result reports the failure and does not list the key
C23_Witness ==
    /\ pc = "done"
    /\ fatal_at = "summary"
    /\ ~response.body.success
    /\ ~InSeq(SummaryKey, response.body.files_created)
    /\ Len(response.body.sources_processed) = 1

\* the record counts in the metadata of the data objects, added up
RECURSIVE RecordCountFrom(_)
RecordCountFrom(i) ==
    IF i > Len(s3) THEN 0
    ELSE (IF s3[i].key # SummaryKey THEN s3[i].record_count ELSE 0)
         + RecordCountFrom(i + 1)

DataKeysListed ==
    {i \in 1..Len(results.files_created) : results.files_created[i] # SummaryKey}

\* C24: while the loop runs and after it, sources_processed has no
\* duplicates, files_created holds one data key per processed source,
\* total_records is the sum of the record counts of the processed sources,
\* and no processed source is named in an error
C24_TrackerIsConsistent ==
    (ConfigUsable /\ pc # "config") =>
        /\ \A i, j \in 1..Len(results.sources_processed) :
            i # j => results.sources_processed[i] # results.sources_processed[j]
        /\ Cardinality(DataKeysListed) = Len(results.sources_processed)
        /\ results.total_records = RecordCountFrom(1)
        /\ \A k \in 1..Len(results.sources_processed) :
            /\ ErrorsNaming(results.sources_processed[k]) = {}
            /\ results.files_created[k].name = results.sources_processed[k]

\* in the loop, after one source was loaded with two records and before the
\* next is extracted
C24_Witness ==
    /\ pc = "extract"
    /\ idx = 2
    /\ Len(results.sources_processed) = 1
    /\ results.total_records = 2
    /\ Len(results.files_created) = 1

(***************************************************************************)
(* Properties of the two clients and of the keys                           *)
(***************************************************************************)
\* what the call would have returned with the other client
OtherClient ==
    extract_data_safe(call.source_name, call.config, ~call.have_requests, call.resp)

\* C26: for the same source name, config and response, extract_data_safe
\* returns the same record list, or None in both cases, whether the request
\* is made with requests or with urllib3
C26_ClientsAgree ==
    pc = "returned" => returned = OtherClient

\* C27: in every object written by load_to_s3, the date of the date=
\* partition is the date of the timestamp in the file name and the
\* extracted_date of the metadata, whatever the clock does between the
\* reads of one call
C27_DatesAgree ==
    \A i \in 1..Len(s3) :
        /\ s3[i].key.date[1] = s3[i].key.stamp[1]
        /\ s3[i].key.date = s3[i].extracted_date

\* C28: no execution summary is overwritten: two runs never write the same
\* metadata/executions key, whether they are invoked without a context or
\* with the request id of an earlier invocation on the same date
C28_NoSummaryOverwritten ==
    \A i, j \in 1..Len(s3) : i # j => s3[i].key # s3[j].key

(***************************************************************************)
(* Properties of two runs that differ in one source                        *)
(***************************************************************************)
\* the tracker of the first run after its i-th source
AfterSource(i) == IF i < Len(log) THEN log[i + 1].before ELSE Tracker(results)

\* the first run's log without the source the second run lacks
RECURSIVE SharedFrom(_)
SharedFrom(i) ==
    IF i > Len(log) THEN <<>>
    ELSE (IF i = call.skip THEN <<>>
          ELSE <<[source |-> log[i].source, outcome |-> log[i].outcome,
                  added |-> log[i].added]>>)
         \o SharedFrom(i + 1)

\* the source the second run lacks failed or gave no data in the first run,
\* or was not reached yet
SkippedGaveNothing ==
    Len(log) < call.skip \/ log[call.skip].outcome # "processed"

\* C25: a source that fails or yields no data leaves sources_processed,
\* total_records and files_created as they were before it; and every other
\* source has the outcome and the record count it has in a run whose
\* configuration lacks the failing source, so that both runs end with the
\* same sources_processed and total_records and as many files
C25_FailuresAreIsolated ==
    pc = "both_runs" =>
        /\ \A i \in 1..Len(log) :
            log[i].outcome # "processed" => AfterSource(i) = log[i].before
        /\ SkippedGaveNothing =>
            /\ returned.log = SharedFrom(1)
            /\ returned.results.sources_processed = results.sources_processed
            /\ returned.results.total_records = results.total_records
            /\ Len(returned.results.files_created) = Len(results.files_created)
            /\ \A i \in 1..Len(results.files_created) :
                returned.results.files_created[i].name = results.files_created[i].name
            /\ Len(returned.results.errors)
                = Len(results.errors)
                  - (IF Len(log) >= call.skip /\ log[call.skip].outcome = "error"
                     THEN 1 ELSE 0)

\* the first of two sources failed in its transform or load, the second was loaded
\* with the same record count in both runs, under keys of different seconds
C25_Witness ==
    /\ pc = "both_runs"
    /\ call.skip = 1
    /\ Len(log) = 2
    /\ log[1].outcome = "error"
    /\ log[2].outcome = "processed"
    /\ Len(returned.log) = 1
    /\ returned.log[1].outcome = "processed"
    /\ returned.log[1].added = log[2].added
    /\ returned.results.files_created # results.files_created

====
